---- MODULE Spec2Model ----
(***************************************************************************)
(* Model of src/agent.py: create_agent wires three tools (execute_sql,     *)
(* get_schema, save_data_to_csv) around one sqlite3 connection and an      *)
(* optional query history list, and SQLAgent runs them inside a            *)
(* dspy.ReAct loop of at most max_iters steps.                             *)
(*                                                                         *)
(* The bodies of the three tool functions live in the repository's         *)
(* `tools` module (imported at agent.py:5); they are modelled here from    *)
(* the specification's component design (sections 2, 4 and 8).             *)
(***************************************************************************)
EXTENDS Integers, Sequences, FiniteSets, TLC

VARIABLES
    lm,             \* dspy.settings.lm: 0 while unset, else the id of the LM object
    nConfigured,    \* how many times dspy.settings.configure(lm=...) took effect
    nCreated,       \* how many create_agent calls were made in this process
    agent,          \* the agent returned by the latest create_agent call
    conn,           \* the sqlite3 connection captured by the tools
    query_history,  \* the caller's history list (externally owned)
    fs,             \* the file system: path -> file text
    pc,             \* position of SQLAgent.forward
    iters,          \* ReAct loop index: tool calls made in this invocation
    inflight,       \* tool calls started and not yet returned
    cur,            \* the tool call the model predicted last
    obs,            \* the observation of the tool call that returned last
    confirmed,      \* the user has sent a confirmation token in this process
    lastWrite       \* the latest write on table t that reported success

vars == << lm, nConfigured, nCreated, agent, conn, query_history, fs, pc, iters,
           inflight, cur, obs, confirmed, lastWrite >>

-----------------------------------------------------------------------------
(* Bounds of the model and constants of the program *)

MaxIters == 7

MaxHistory == 2

MaxAgents == 2

-----------------------------------------------------------------------------
(* SQL statements the language model may choose *)

SelectT == "SELECT * FROM t"
InsertT == "INSERT INTO t (id) VALUES (1)"
DeleteT == "DELETE FROM t"
CreateU == "CREATE TABLE u (x TEXT)"
AlterT  == "ALTER TABLE t ADD COLUMN note TEXT"

Queries == {SelectT, InsertT, DeleteT, CreateU, AlterT}

Destructive == {DeleteT, AlterT}

TableArgs == {"None", "t", "u"}

-----------------------------------------------------------------------------
(* Python's str() of the values the tools return *)

RECURSIVE Join(_, _)
Join(strs, sep) ==
    IF Len(strs) = 0 THEN ""
    ELSE IF Len(strs) = 1 THEN strs[1]
    ELSE strs[1] \o sep \o Join(Tail(strs), sep)

\* str() of a 1-tuple carries a trailing comma: (1,)
TupleStr(cells) ==
    IF Len(cells) = 1 THEN "(" \o cells[1] \o ",)"
    ELSE "(" \o Join(cells, ", ") \o ")"

ListStr(rows) == "[" \o Join([i \in 1..Len(rows) |-> TupleStr(rows[i])], ", ") \o "]"

Quoted(s) == "'" \o s \o "'"

-----------------------------------------------------------------------------
(* The sqlite3 connection.  A cell is kept as the text Python prints for it *)
(* ("1", "None"); names lists the tables in creation order.                 *)

InitConn ==
    [ names  |-> << "t" >>,
      tables |-> [n \in {"t"} |-> [cols |-> << << "id", "INTEGER" >> >>, rows |-> << >>]],
      stmt   |-> "" ]

HasTable(c, n) == n \in DOMAIN c.tables

HasCol(c, n, col) == \E i \in 1..Len(c.tables[n].cols) : c.tables[n].cols[i][1] = col

HasId(c, n, id) == \E i \in 1..Len(c.tables[n].rows) : c.tables[n].rows[i][1] = id

SqlOk(c, rows) == [ok |-> TRUE, conn |-> c, rows |-> rows, err |-> ""]

SqlError(c, msg) == [ok |-> FALSE, conn |-> c, rows |-> << >>, err |-> msg]

\* cursor.execute(query): the statement is run as given; a failing statement
\* raises sqlite3.Error and leaves the tables as they were
sqlite_execute(c0, query) ==
    LET c == [c0 EXCEPT !.stmt = query]
        t == c.tables["t"]
    IN  CASE query = SelectT -> SqlOk(c, t.rows)
          [] query = InsertT ->
                IF HasId(c, "t", "1")
                THEN SqlError(c, "UNIQUE constraint failed: t.id")
                ELSE SqlOk([c EXCEPT !.tables["t"].rows =
                               Append(@, [i \in 1..Len(t.cols) |->
                                             IF i = 1 THEN "1" ELSE "None"])], << >>)
          [] query = DeleteT -> SqlOk([c EXCEPT !.tables["t"].rows = << >>], << >>)
          [] query = CreateU ->
                IF HasTable(c, "u")
                THEN SqlError(c, "table u already exists")
                ELSE SqlOk([c EXCEPT
                              !.names = Append(@, "u"),
                              !.tables = [n \in DOMAIN c.tables \cup {"u"} |->
                                            IF n = "u"
                                            THEN [cols |-> << << "x", "TEXT" >> >>,
                                                  rows |-> << >>]
                                            ELSE c.tables[n]]], << >>)
          [] query = AlterT ->
                IF HasCol(c, "t", "note")
                THEN SqlError(c, "duplicate column name: note")
                ELSE SqlOk([c EXCEPT
                              !.tables["t"].cols = Append(@, << "note", "TEXT" >>),
                              !.tables["t"].rows =
                                  [i \in 1..Len(t.rows) |-> Append(t.rows[i], "None")]],
                           << >>)
          [] OTHER -> SqlError(c, "near \"" \o query \o "\": syntax error")

IsRead(query) == query = SelectT

SuccessMsg == "Query executed successfully."

-----------------------------------------------------------------------------
(* tools.execute_sql, tools.get_schema, tools.save_data_to_csv *)

NoHistory == [none |-> TRUE, list |-> << >>]

SomeHistory(l) == [none |-> FALSE, list |-> l]

\* execute_sql(conn, query, query_history): runs the string verbatim, appends
\* it to the history when one is given, returns rows / a confirmation / the
\* error text; sqlite errors are caught and returned
execute_sql(c, query, h) ==
    LET r == sqlite_execute(c, query)
    IN  [ conn    |-> r.conn,
          history |-> IF h.none THEN h ELSE SomeHistory(Append(h.list, query)),
          raised  |-> FALSE,
          value   |-> IF ~r.ok THEN r.err
                      ELSE IF IsRead(query) THEN ListStr(r.rows)
                      ELSE SuccessMsg ]

\* get_schema(conn, table_name): None lists the tables, a name describes the
\* table's columns and types (an unknown name has no columns)
get_schema(c, table_name) ==
    IF table_name = "None"
    THEN ListStr([i \in 1..Len(c.names) |-> << Quoted(c.names[i]) >>])
    ELSE IF ~HasTable(c, table_name) THEN "[]"
    ELSE LET cols == c.tables[table_name].cols
         IN  ListStr([i \in 1..Len(cols) |-> << Quoted(cols[i][1]), Quoted(cols[i][2]) >>])

-----------------------------------------------------------------------------
(* CSV text.  A field and a file are sequences of characters. *)

Comma == ","
DQuote == "\""
Eol == "\n"

RECURSIVE Flatten(_, _)
Flatten(seqs, sep) ==
    IF Len(seqs) = 0 THEN << >>
    ELSE IF Len(seqs) = 1 THEN seqs[1]
    ELSE seqs[1] \o sep \o Flatten(Tail(seqs), sep)

NeedsQuotes(field) == \E i \in 1..Len(field) : field[i] \in {Comma, DQuote, Eol}

\* a quoted field doubles the quotes inside it
EncodeField(field) ==
    IF NeedsQuotes(field)
    THEN << DQuote >>
         \o Flatten([i \in 1..Len(field) |->
                       IF field[i] = DQuote THEN << DQuote, DQuote >> ELSE << field[i] >>],
                    << >>)
         \o << DQuote >>
    ELSE field

EncodeRow(row) == Flatten([i \in 1..Len(row) |-> EncodeField(row[i])], << Comma >>) \o << Eol >>

WriteCsv(data) == Flatten([i \in 1..Len(data) |-> EncodeRow(data[i])], << >>)

\* csv.reader: st is "start" (at the start of a field), "plain", "quoted" or
\* "quote" (a quote seen inside a quoted field)
RECURSIVE ParseCsv(_, _, _, _, _, _)
ParseCsv(text, i, st, field, row, rows) ==
    IF i > Len(text) THEN rows
    ELSE LET ch == text[i]
         IN  IF st = "quoted"
             THEN IF ch = DQuote
                  THEN ParseCsv(text, i + 1, "quote", field, row, rows)
                  ELSE ParseCsv(text, i + 1, "quoted", Append(field, ch), row, rows)
             ELSE IF ch = DQuote
             THEN IF st = "quote"
                  THEN ParseCsv(text, i + 1, "quoted", Append(field, DQuote), row, rows)
                  ELSE ParseCsv(text, i + 1, "quoted", field, row, rows)
             ELSE IF ch = Comma
             THEN ParseCsv(text, i + 1, "start", << >>, Append(row, field), rows)
             ELSE IF ch = Eol
             THEN ParseCsv(text, i + 1, "start", << >>, << >>,
                           Append(rows, Append(row, field)))
             ELSE ParseCsv(text, i + 1, "plain", Append(field, ch), row, rows)

ReadCsv(text) == ParseCsv(text, 1, "start", << >>, << >>, << >>)

SavedMsg(file_path) == "Data saved to " \o file_path

\* save_data_to_csv(data, file_path): opens the path for writing (truncating
\* what was there), writes one CSV line per row, returns the success message
save_data_to_csv(f, data, file_path) ==
    [ fs    |-> [p \in DOMAIN f \cup {file_path} |->
                    IF p = file_path THEN WriteCsv(data) ELSE f[p]],
      value |-> SavedMsg(file_path) ]

\* tabular data and destination paths the language model may choose
Data1 == << << << "1" >>, << "a", ",", "b" >> >>,
            << << "2" >>, << "q", "\"" >> >> >>

Data2 == << << << "2" >>, << "x" >> >> >>

DataArgs == {Data1, Data2}

PathArgs == {"out.csv", "b.csv"}

-----------------------------------------------------------------------------
(* create_agent's tools.  A tool sees the world w = [conn, history, fs] and *)
(* returns the world it leaves, whether it raised, and its return value.    *)

World == [ conn    |-> conn,
           history |-> IF agent.has_history THEN SomeHistory(query_history) ELSE NoHistory,
           fs      |-> fs ]

\* the statement handed to the cursor directly, outside execute_sql
execute_sql_tool_Raw(w, query) ==
    LET r == sqlite_execute(w.conn, query)
    IN  [ conn |-> r.conn, history |-> w.history, fs |-> w.fs,
          raised |-> ~r.ok,
          value |-> IF r.ok THEN ListStr(r.rows) ELSE r.err ]

\* destructive statements refused until the user has confirmed
execute_sql_tool_Gated(w, query) ==
    IF query \in Destructive /\ ~confirmed
    THEN [ conn |-> w.conn, history |-> w.history, fs |-> w.fs,
           raised |-> FALSE, value |-> "Confirmation required." ]
    ELSE LET r == execute_sql(w.conn, query, w.history)
         IN  [ conn |-> r.conn, history |-> r.history, fs |-> w.fs,
               raised |-> r.raised, value |-> r.value ]

\* the history is not passed on to execute_sql
execute_sql_tool_NoHistory(w, query) ==
    LET r == execute_sql(w.conn, query, NoHistory)
    IN  [ conn |-> r.conn, history |-> w.history, fs |-> w.fs,
          raised |-> r.raised, value |-> r.value ]

\* the statement runs on a connection of its own, not on the captured one
execute_sql_tool_Detached(w, query) ==
    LET r == execute_sql(w.conn, query, w.history)
    IN  [ conn |-> w.conn, history |-> r.history, fs |-> w.fs,
          raised |-> r.raised, value |-> r.value ]

\* func=lambda query: execute_sql(conn, query, query_history)
execute_sql_tool(w, query) ==
    LET r == execute_sql(w.conn, query, w.history)
    IN  [ conn |-> r.conn, history |-> r.history, fs |-> w.fs,
          raised |-> r.raised, value |-> r.value ]

\* the table name is dropped: get_schema(conn)
get_schema_tool_AllTables(w, table_name) ==
    [ conn |-> w.conn, history |-> w.history, fs |-> w.fs,
      raised |-> FALSE, value |-> get_schema(w.conn, "None") ]

\* the history is wired into get_schema as well
get_schema_tool_Logged(w, table_name) ==
    [ conn |-> w.conn, history |-> SomeHistory(Append(w.history.list, table_name)),
      fs |-> w.fs, raised |-> FALSE, value |-> get_schema(w.conn, table_name) ]

\* func=lambda table_name: get_schema(conn, table_name)
get_schema_tool(w, table_name) ==
    [ conn |-> w.conn, history |-> w.history, fs |-> w.fs,
      raised |-> FALSE, value |-> get_schema(w.conn, table_name) ]

\* the file always goes to a default path
save_csv_tool_DefaultPath(w, data, file_path) ==
    LET r == save_data_to_csv(w.fs, data, "out.csv")
    IN  [ conn |-> w.conn, history |-> w.history, fs |-> r.fs,
          raised |-> FALSE, value |-> r.value ]

\* func=save_data_to_csv
save_csv_tool(w, data, file_path) ==
    LET r == save_data_to_csv(w.fs, data, file_path)
    IN  [ conn |-> w.conn, history |-> w.history, fs |-> r.fs,
          raised |-> FALSE, value |-> r.value ]

\* the finish tool dspy.ReAct adds to the tools it is given
finish_tool(w) ==
    [ conn |-> w.conn, history |-> w.history, fs |-> w.fs,
      raised |-> FALSE, value |-> "Completed." ]

Call(tool, query, table_name, data, file_path) ==
    [ tool |-> tool, query |-> query, table_name |-> table_name,
      data |-> data, file_path |-> file_path ]

NoCall == Call("", "", "None", << >>, "")

\* all_tools = [execute_sql_tool, get_schema_tool, save_csv_tool], plus finish
Calls ==
    { Call("execute_sql", q, "None", << >>, "") : q \in Queries }
    \cup { Call("get_schema", "", t, << >>, "") : t \in TableArgs }
    \cup { Call("save_data_to_csv", "", "None", d, p) : d \in DataArgs, p \in PathArgs }
    \cup { Call("finish", "", "None", << >>, "") }

Invoke(w, call) ==
    CASE call.tool = "execute_sql" -> execute_sql_tool(w, call.query)
      [] call.tool = "get_schema" -> get_schema_tool(w, call.table_name)
      [] call.tool = "save_data_to_csv" -> save_csv_tool(w, call.data, call.file_path)
      [] OTHER -> finish_tool(w)

NoObs == [raised |-> FALSE, value |-> ""]

\* ReAct catches what a tool raises and records it as the observation
Observation(call, r) ==
    [ raised |-> r.raised,
      value  |-> IF r.raised
                 THEN "Execution error in " \o call.tool \o ": " \o r.value
                 ELSE r.value ]

-----------------------------------------------------------------------------
(* configure_llm and create_agent *)

\* the global model is configured only while none is set
configure_llm_Once(settings) ==
    IF settings.lm # 0
    THEN [ lm |-> settings.lm, nConfigured |-> settings.nConfigured, llm |-> settings.lm ]
    ELSE [ lm |-> settings.nConfigured + 1, nConfigured |-> settings.nConfigured + 1,
           llm |-> settings.nConfigured + 1 ]

\* llm = dspy.LM(...); dspy.settings.configure(lm=llm); return llm
configure_llm(settings) ==
    LET llm == settings.nConfigured + 1
    IN  [ lm |-> llm, nConfigured |-> settings.nConfigured + 1, llm |-> llm ]

\* create_agent(conn, query_history): given is FALSE for query_history=None
CreateAgent(given) ==
    /\ pc = "idle"
    /\ nCreated < MaxAgents
    /\ LET r == configure_llm([lm |-> lm, nConfigured |-> nConfigured])
       IN  /\ lm' = r.lm
           /\ nConfigured' = r.nConfigured
           /\ agent' = IF r.llm = 0 THEN agent
                       ELSE [exists |-> TRUE, has_history |-> given]
    /\ nCreated' = nCreated + 1
    /\ UNCHANGED << conn, query_history, fs, pc, iters, inflight, cur, obs, confirmed,
                    lastWrite >>

-----------------------------------------------------------------------------
(* SQLAgent.forward: the dspy.ReAct loop with max_iters = MaxIters *)

\* forward(question, initial_schema); token: the question carries a
\* confirmation token
Forward(token) ==
    /\ agent.exists
    /\ pc \in {"idle", "done"}
    /\ pc' = "predict"
    /\ iters' = 0
    /\ cur' = NoCall
    /\ obs' = NoObs
    /\ confirmed' = (confirmed \/ token)
    /\ UNCHANGED << lm, nConfigured, nCreated, agent, conn, query_history, fs, inflight,
                    lastWrite >>

\* tool calls dispatched without waiting for the one in progress
CanPredict_Async == pc \in {"predict", "tool"}

\* the loop predicts the next tool call only after the previous one returned
CanPredict == pc = "predict"

\* the history stays within the model's bound
Fits(call) ==
    (call.tool = "execute_sql" /\ agent.has_history) => Len(query_history) < MaxHistory

\* the language model chooses the next tool and its arguments
Predict(call) ==
    /\ CanPredict
    /\ Fits(call)
    /\ pc' = "tool"
    /\ cur' = call
    /\ obs' = NoObs
    /\ inflight' = inflight + 1
    /\ UNCHANGED << lm, nConfigured, nCreated, agent, conn, query_history, fs, iters,
                    confirmed, lastWrite >>

WroteT(call, r) ==
    /\ call.tool = "execute_sql"
    /\ call.query \in {InsertT, DeleteT}
    /\ ~r.raised
    /\ r.value = SuccessMsg

\* one iteration too many
LoopEnds_OffByOne(done, tool) == tool = "finish" \/ done > MaxIters

\* for idx in range(max_iters): ...; if tool_name == "finish": break
LoopEnds(done, tool) == tool = "finish" \/ done >= MaxIters

\* the chosen tool runs and its observation is added to the trajectory
ToolReturn ==
    /\ pc = "tool"
    /\ LET r == Invoke(World, cur)
       IN  /\ conn' = r.conn
           /\ query_history' = IF r.history.none THEN query_history ELSE r.history.list
           /\ fs' = r.fs
           /\ obs' = Observation(cur, r)
           /\ lastWrite' = IF WroteT(cur, r) THEN cur.query ELSE lastWrite
    /\ iters' = iters + 1
    /\ inflight' = inflight - 1
    /\ pc' = IF LoopEnds(iters + 1, cur.tool) THEN "extract" ELSE "predict"
    /\ UNCHANGED << lm, nConfigured, nCreated, agent, cur, confirmed >>

\* the answer is extracted from the trajectory and forward returns
Extract ==
    /\ pc = "extract"
    /\ pc' = "done"
    /\ UNCHANGED << lm, nConfigured, nCreated, agent, conn, query_history, fs, iters,
                    inflight, cur, obs, confirmed, lastWrite >>

-----------------------------------------------------------------------------

Init ==
    /\ lm = 0
    /\ nConfigured = 0
    /\ nCreated = 0
    /\ agent = [exists |-> FALSE, has_history |-> FALSE]
    /\ conn = InitConn
    /\ query_history = << >>
    /\ fs = [p \in {} |-> << >>]
    /\ pc = "idle"
    /\ iters = 0
    /\ inflight = 0
    /\ cur = NoCall
    /\ obs = NoObs
    /\ confirmed = FALSE
    /\ lastWrite = ""

Next ==
    \/ \E given \in BOOLEAN : CreateAgent(given)
    \/ \E token \in BOOLEAN : Forward(token)
    \/ \E call \in Calls : Predict(call)
    \/ ToolReturn
    \/ Extract

Spec == Init /\ [][Next]_vars

\* The same program with the language model choosing among one call of each
\* tool
LoopCalls ==
    { Call("execute_sql", InsertT, "None", << >>, ""),
      Call("get_schema", "", "None", << >>, ""),
      Call("save_data_to_csv", "", "None", Data2, "out.csv"),
      Call("finish", "", "None", << >>, "") }

LoopNext ==
    \/ \E given \in BOOLEAN : CreateAgent(given)
    \/ \E token \in BOOLEAN : Forward(token)
    \/ \E call \in LoopCalls : Predict(call)
    \/ ToolReturn
    \/ Extract

\* forward is synchronous: the language model answers, the tool returns and
\* the answer is extracted
LoopSpec ==
    /\ Init
    /\ [][LoopNext]_vars
    /\ WF_vars(\E call \in LoopCalls : Predict(call))
    /\ WF_vars(ToolReturn)
    /\ WF_vars(Extract)

-----------------------------------------------------------------------------
(* Properties *)

\* a call of this tool is in flight: the next step is its return
Running(tool) == pc = "tool" /\ cur.tool = tool

\* the last tool call made was of this tool and has returned
Returned(tool) == pc # "tool" /\ cur.tool = tool

\* C1: a failure of the database execution never leaves the execute_sql tool
\* as an exception: the call returns, its observation is the error message
\* text, and the loop moves on to its next step.
C1_ErrorsAreReturned ==
    [][ Running("execute_sql") =>
          /\ ~obs'.raised
          /\ obs'.value \in STRING
          /\ ~sqlite_execute(conn, cur.query).ok =>
                obs'.value = sqlite_execute(conn, cur.query).err
          /\ iters' = iters + 1
          /\ pc' \in {"predict", "extract"} ]_vars

C1_Witness ==
    /\ Returned("execute_sql")
    /\ cur.query = InsertT
    /\ obs = [raised |-> FALSE, value |-> "UNIQUE constraint failed: t.id"]
    /\ pc = "predict"

\* C2: the execute_sql tool hands the string it is given to the connection
\* as it is, and the connection is left as that statement leaves it, whether
\* or not the user ever sent a confirmation token.
C2_ExecutedVerbatim ==
    [][ Running("execute_sql") =>
          /\ conn'.stmt = cur.query
          /\ conn' = sqlite_execute(conn, cur.query).conn ]_vars

C2_Witness ==
    /\ Returned("execute_sql")
    /\ cur.query = DeleteT
    /\ ~confirmed
    /\ agent.has_history
    /\ query_history = << InsertT, DeleteT >>
    /\ conn.stmt = DeleteT
    /\ conn.tables["t"].rows = << >>
    /\ obs.value = SuccessMsg

\* C3: one invocation of forward makes at most MaxIters tool calls, whatever
\* the model chooses, and then ends with an answer.
C3_BoundedAndTerminates ==
    /\ [](iters <= MaxIters)
    /\ (pc = "predict") ~> (pc = "done")

C3_Witness ==
    /\ pc = "done"
    /\ iters = MaxIters
    /\ cur.tool # "finish"

\* C4: with a history supplied, every step leaves the history as it was,
\* except the return of an execute_sql call, which appends that call's string
\* at the end.
C4_HistoryAppendOnly ==
    [][ agent.has_history =>
          query_history' = IF Running("execute_sql")
                           THEN Append(query_history, cur.query)
                           ELSE query_history ]_vars

C4_Witness ==
    /\ agent.has_history
    /\ Returned("execute_sql")
    /\ query_history = << InsertT, InsertT >>

\* C5: once a write on t through execute_sql has reported success, a read
\* through execute_sql returns the rows as that write left them, whatever
\* get_schema and save_data_to_csv calls came in between.
C5_ReadSeesWrite ==
    (Returned("execute_sql") /\ cur.query = SelectT) =>
        /\ lastWrite = InsertT => obs.value \in {"[(1,)]", "[(1, None)]"}
        /\ lastWrite = DeleteT => obs.value = "[]"

C5_Witness ==
    /\ Returned("execute_sql")
    /\ cur.query = SelectT
    /\ lastWrite = InsertT
    /\ obs.value = "[(1,)]"
    /\ DOMAIN fs # {}
    /\ iters >= 4

\* C6: get_schema with None returns the names of all tables of the database,
\* and with the name of an existing table that table's columns and types, as
\* the schema is when the call is made.
C6_SchemaIsLive ==
    Returned("get_schema") =>
        /\ cur.table_name = "None" =>
              obs.value = IF HasTable(conn, "u") THEN "[('t',), ('u',)]" ELSE "[('t',)]"
        /\ cur.table_name = "t" =>
              obs.value = IF HasCol(conn, "t", "note")
                          THEN "[('id', 'INTEGER'), ('note', 'TEXT')]"
                          ELSE "[('id', 'INTEGER')]"
        /\ (cur.table_name = "u" /\ HasTable(conn, "u")) => obs.value = "[('x', 'TEXT')]"

C6_Witness ==
    /\ Returned("get_schema")
    /\ cur.table_name = "u"
    /\ conn.stmt = CreateU
    /\ obs.value = "[('x', 'TEXT')]"

C8_OneCallAtATime ==
    /\ inflight \in {0, 1}
    /\ inflight = 1 <=> pc = "tool"

C8_Witness ==
    /\ inflight = 1
    /\ iters >= 1
    /\ cur.tool = "execute_sql"

\* C9 as stated: the configuration call that sets the global language model
\* takes effect at most once per process.
C9_ConfiguredAtMostOnce == nConfigured <= 1

\* C9 amended: every create_agent call configures the global language model
\* anew, so it has been set once per create_agent call made, and it is the
\* model the latest call built.
C9_ConfiguredPerCreate ==
    /\ nConfigured = nCreated
    /\ lm = nCreated

C9_Witness ==
    /\ nCreated = 2
    /\ nConfigured = 2
    /\ lm = 2

\* C10: get_schema and save_data_to_csv calls leave the query history as it
\* is, save_data_to_csv leaves the database as it is, and with no history
\* given to create_agent no step changes the caller's list.
C10_Frame ==
    [][ /\ (Running("get_schema") \/ Running("save_data_to_csv")) =>
              query_history' = query_history
        /\ Running("save_data_to_csv") => conn' = conn
        /\ ~agent.has_history => query_history' = query_history ]_vars

C10_Witness ==
    /\ ~agent.has_history
    /\ Returned("save_data_to_csv")
    /\ lastWrite = InsertT
    /\ conn.stmt = InsertT
    /\ query_history = << >>

====
